---- MODULE Spec2Model ----
(***************************************************************************)
(* A model of the pose-search core of idock: the result container          *)
(* (add_to_result_container), the receptor constructor and the Monte Carlo *)
(* task.  Real numbers are modelled by integers.                           *)
(***************************************************************************)
EXTENDS Integers, Sequences, FiniteSets, TLC

VARIABLES
    results,                \* ptr_vector<result>: the result container
    capacity,               \* results.capacity(), as reserved by the caller
    required_square_error,  \* the threshold passed to add_to_result_container
    prev_results,           \* history: the container before the last insertion
    cand,                   \* history: the candidate of the last insertion
    inserted,               \* history: has an insertion been made
    inserted_e,             \* history: the e of every candidate inserted so far
    rec_pc,                 \* receptor constructor: "parsing" or "done"
    num_lines,              \* receptor constructor: lines read so far
    residue,                \* receptor constructor: current residue sequence
    residue_start,          \* receptor constructor: first atom of the residue
    residues_read,          \* history: residue sequence of each ATOM line read, -1 for TER
    line_of,                \* history: for each stored atom, its place in residues_read
    atoms,                  \* receptor::atoms
    partitions,             \* receptor::partitions
    unknown_seen,           \* history: an ATOM/HETATM line had an unknown type
    mc,                     \* per task: the local variables of monte_carlo_task
    eng,                    \* per task: its random number engine
    workers,                \* the number of worker threads of the pool
    argument_order,         \* the order in which the build evaluates arguments
    sf_pc,                  \* scoring_function::evaluate: "idle", "called", "returned"
    sf_r2,                  \* its argument r2, in units of 1 / R2Den
    sf_index                \* the index of the sample it read

rcvars == <<results, capacity, required_square_error, prev_results, cand, inserted,
            inserted_e>>

recvars == <<rec_pc, num_lines, residue, residue_start, residues_read, line_of,
             atoms, partitions, unknown_seen>>

mcvars == <<mc, eng, workers, argument_order>>

sfvars == <<sf_pc, sf_r2, sf_index>>

vars == <<rcvars, recvars, mcvars, sfvars>>

\* ------------------------------------------------------------------------
\* Bounds of the model
\* ------------------------------------------------------------------------

\* Largest capacity of a result container.
MaxK == 3
\* Heavy atom coordinates are 0..MaxCoord.
MaxCoord == 3
\* Free energies are -MaxEnergy..-1.
MaxEnergy == 2

\* Longest receptor file, in lines.
MaxLines == 3
\* Seeds of a Monte Carlo task are 1..NumSeeds.
NumSeeds == 4
\* Seeds of the tasks run concurrently by the pool are 1..NumPoolSeeds.
NumPoolSeeds == 1
\* A task is followed for at most MaxSteps steps.
MaxSteps == 2000
\* Tasks that run at the same time are at most MaxLead steps apart.
MaxLead == 10
\* Squared distances are the multiples of 1 / R2Den.
R2Den == 512

Coordinates == 0..MaxCoord
Energies == (0 - MaxEnergy)..(0 - 1)
\* The thresholds a container is created with: the default (2 A)^2 and one more.
RequiredSquareErrors == {4, 5}

\* ------------------------------------------------------------------------
\* result (unnamed/part_000)
\* ------------------------------------------------------------------------

\* A result: free energy e and heavy atom coordinates (one atom <<x, y, z>>).
Results == [e : Energies, heavy_atoms : {<<(<<x, 0, 0>>)>> : x \in Coordinates}]

NoResult == [e |-> 0, heavy_atoms |-> <<>>]

\* result::operator<
result_less(a, b) == a.e < b.e

sqr(x) == x * x

\* distance_sqr of two coordinates.
distance_sqr3(a, b) == sqr(a[1] - b[1]) + sqr(a[2] - b[2]) + sqr(a[3] - b[3])

RECURSIVE distance_sqr_from(_, _, _)
distance_sqr_from(a, b, i) ==
    IF i > Len(a) THEN 0
    ELSE distance_sqr3(a[i], b[i]) + distance_sqr_from(a, b, i + 1)

\* distance_sqr of two vectors of coordinates, divided by the atom count.
distance_sqr(a, b) == distance_sqr_from(a, b, 1) \div Len(a)

\* A sort that leaves the order as it is.
sort_nothing(s) == {s}

\* ptr_vector::sort(): std::sort by operator<.  The order of members that
\* compare equal is unspecified, so every sorted permutation is an outcome.
IsSortedSeq(s) == \A i \in 1..(Len(s) - 1) : ~result_less(s[i + 1], s[i])

\* s without its i-th member.
remove_at(s, i) == [k \in 1..(Len(s) - 1) |-> IF k < i THEN s[k] ELSE s[k + 1]]

\* The sorted permutations of s: any member that none is less than comes
\* first, followed by a sorted permutation of the others.
RECURSIVE sort(_)
sort(s) ==
    IF s = <<>> THEN {<<>>}
    ELSE UNION {{<<s[i]>> \o t : t \in sort(remove_at(s, i))} :
                   i \in {k \in DOMAIN s : \A j \in DOMAIN s : ~result_less(s[j], s[k])}}

\* ptr_vector::replace(index, x), 1-based.
replace(s, index, x) == [s EXCEPT ![index] = x]

\* The loop of lines 65-75: the index of the closest member and its distance.
\* i is the next member to look at (1-based).
RECURSIVE closest_from(_, _, _, _, _)
closest_from(s, r, i, index, best_square_error) ==
    IF i > Len(s) THEN [index |-> index, best_square_error |-> best_square_error]
    ELSE LET this_square_error == distance_sqr(r.heavy_atoms, s[i].heavy_atoms)
         IN  IF this_square_error < best_square_error
             THEN closest_from(s, r, i + 1, i, this_square_error)
             ELSE closest_from(s, r, i + 1, index, best_square_error)

closest(s, r) == closest_from(s, r, 2, 1, distance_sqr(r.heavy_atoms, s[1].heavy_atoms))

\* A comparison that lets every candidate replace the member.
is_better_always(r, member) == TRUE

\* r is better than the member it is compared with (lines 79 and 92).
is_better(r, member) == r.e < member.e

\* A capacity test that always finds room.
has_room_always(s, cap) == TRUE

\* The container is not full (line 86).
has_room(s, cap) == Len(s) < cap

\* A near branch that also replaces a member of the same energy.
near_case_not_strict(s, r, index) ==
    IF r.e <= s[index].e THEN replace(s, index, r) ELSE s

\* The near branch, lines 77-83.
near_case(s, r, index) ==
    IF is_better(r, s[index]) THEN replace(s, index, r) ELSE s

\* A far branch that replaces the best member of a full container.
far_case_replaces_front(s, r, cap) ==
    IF has_room(s, cap) THEN Append(s, r)
    ELSE IF is_better(r, s[Len(s)]) THEN replace(s, 1, r)
    ELSE s

\* The far branch, lines 84-97.
far_case(s, r, cap) ==
    IF has_room(s, cap) THEN Append(s, r)
    ELSE IF is_better(r, s[Len(s)]) THEN replace(s, Len(s), r)
    ELSE s

\* add_to_result_container: the set of containers the call can leave.
add_to_result_container(s, r, cap, tau) ==
    IF s = <<>> THEN {<<r>>}
    ELSE LET c == closest(s, r)
         IN  IF c.best_square_error < tau
             THEN sort(near_case(s, r, c.index))
             ELSE sort(far_case(s, r, cap))

\* ------------------------------------------------------------------------
\* scoring_function constants (src/scoring_function.cpp)
\* ------------------------------------------------------------------------

Cutoff == 8
Cutoff_Sqr == Cutoff * Cutoff
Factor == 256

\* A table without the sample at the cutoff itself.
Num_Samples_without_last == Factor * Cutoff_Sqr

\* Line 7: the number of samples of a table.
Num_Samples == Factor * Cutoff_Sqr + 1

\* The squared distances of the model, as numerators over R2Den: line 47
\* requires r2 <= Cutoff_Sqr, and a squared distance is not negative.
SquaredDistances == 0..(Cutoff_Sqr * R2Den)

\* Line 48: static_cast<size_t>(Factor * r2), for r2 = r2n / R2Den.
sample_index(r2n) == (Factor * r2n) \div R2Den

\* Line 48: the read of the table; an index past the last sample reads
\* outside the vector.
sample_read(i) == IF i < Num_Samples THEN "sample" ELSE "out_of_range"

IdleSF ==
    /\ sf_pc = "idle"
    /\ sf_r2 = 0
    /\ sf_index = 0

InitSF ==
    /\ sf_pc = "called"
    /\ sf_r2 \in SquaredDistances
    /\ sf_index = 0

\* One call of scoring_function::evaluate(type_pair_index, r2).
Evaluate ==
    /\ sf_pc = "called"
    /\ sf_pc' = "returned"
    /\ sf_index' = sample_index(sf_r2)
    /\ UNCHANGED <<sf_r2, rcvars, recvars, mcvars>>

NextSF == Evaluate

\* C19: the table lookup stays in range: for every r2 in [0, Cutoff^2] the
\* index read is the floor of Factor * r2, it lies in 0..Num_Samples - 1, and
\* for r2 = Cutoff^2 it is the last sample, Num_Samples - 1.
C19_LookupInRange ==
    sf_pc = "returned" =>
        /\ sf_index * R2Den <= Factor * sf_r2
        /\ Factor * sf_r2 < (sf_index + 1) * R2Den
        /\ sf_index \in 0..(Num_Samples - 1)
        /\ sample_read(sf_index) = "sample"
        /\ sf_r2 = Cutoff_Sqr * R2Den => sf_index = Num_Samples - 1

\* C19 witness: the lookup at the cutoff itself has read the last sample.
C19_Witness ==
    /\ sf_pc = "returned"
    /\ sf_r2 = Cutoff_Sqr * R2Den
    /\ sf_index = Factor * Cutoff_Sqr

\* ------------------------------------------------------------------------
\* atom and box, as the receptor constructor uses them
\* ------------------------------------------------------------------------

\* AutoDock4 type strings of the model; "Xx" is in no table.
AdTypeStrings == {"C", "N", "H", "HD", "Xx"}

\* parse_ad_type_string: the type, or AD_TYPE_SIZE for an unknown string.
parse_ad_type_string(s) ==
    IF s \in {"C", "N", "H", "HD"} THEN s ELSE "AD_TYPE_SIZE"

\* atom::atom: a carbon starts hydrophobic, no atom starts as a donor.
atom(coordinate, ad) ==
    [coordinate |-> coordinate, ad |-> ad, hydrophobic |-> (ad = "C"), donor |-> FALSE]

\* atom::is_hetero: neither a hydrogen nor a carbon.
is_hetero(a) == a.ad \notin {"H", "HD", "C"}

\* atom::is_neighbor: closer than the sum of the covalent radii.
is_neighbor(a, b) == distance_sqr3(a.coordinate, b.coordinate) < 4

\* atom::donorize and atom::dehydrophobicize.
donorize(a) == [a EXCEPT !.donor = TRUE]
dehydrophobicize(a) == [a EXCEPT !.hydrophobic = FALSE]

\* The box: corner1 = (0,0,0), partitions of edge 1, 2 x 1 x 1 of them.
box_corner1 == <<0, 0, 0>>
box_num_partitions == <<2, 1, 1>>
box_corner2 == <<box_num_partitions[1], box_num_partitions[2], box_num_partitions[3]>>

\* box::partition_corner1(index): the low corner of a cell.
partition_corner1(index) ==
    <<box_corner1[1] + index[1], box_corner1[2] + index[2], box_corner1[3] + index[3]>>

\* Distance of x to the interval [lo, hi].
axis_distance(lo, hi, x) == IF x < lo THEN lo - x ELSE IF x > hi THEN x - hi ELSE 0

\* box::project_distance_sqr(corner1, corner2, coordinate).
project_distance_sqr3(c1, c2, p) ==
    sqr(axis_distance(c1[1], c2[1], p[1])) + sqr(axis_distance(c1[2], c2[2], p[2]))
        + sqr(axis_distance(c1[3], c2[3], p[3]))

\* box::project_distance_sqr(coordinate): to the whole box.
project_distance_sqr(p) == project_distance_sqr3(box_corner1, box_corner2, p)

\* Cells are indexed from 0, as in the code.
Cells == {<<x, y, z>> : x \in 0..(box_num_partitions[1] - 1),
                        y \in 0..(box_num_partitions[2] - 1),
                        z \in 0..(box_num_partitions[3] - 1)}

\* ------------------------------------------------------------------------
\* receptor::receptor (src/receptor.cpp)
\* ------------------------------------------------------------------------

\* Atom coordinates of the model: 8 and 7 away from the box on the low side,
\* inside it, and 7 away on the high side.
AtomCoordinates == {<<0 - 8, 0, 0>>, <<0 - 7, 0, 0>>, <<1, 0, 0>>, <<9, 0, 0>>}

\* Residue sequences of the input (columns 23-26 of a line); 0 stands for
\* "XXXX", the dummy value of line 11, which a file may carry as well.
ResidueSequences == {0, 1}

\* The lines of a receptor file.
AtomLines == [record : {"ATOM  "}, residue : ResidueSequences,
              ad_type_string : AdTypeStrings, coordinate : AtomCoordinates]
OtherLines == {[record |-> "TER   "], [record |-> "REMARK"]}

\* Lines 49-57: the nearest preceding hetero neighbour of the residue becomes a
\* donor.  i counts down from the last atom (1-based) to residue_start + 1.
RECURSIVE donorize_bonded(_, _, _, _)
donorize_bonded(as, a, i, start) ==
    IF i <= start THEN as
    ELSE IF is_hetero(as[i]) /\ is_neighbor(as[i], a)
         THEN [as EXCEPT ![i] = donorize(as[i])]
         ELSE donorize_bonded(as, a, i - 1, start)

\* Lines 61-68: every preceding carbon neighbour of the residue loses its
\* hydrophobic flag.
dehydrophobicize_bonded(as, a, start) ==
    [i \in DOMAIN as |->
        IF i > start /\ ~is_hetero(as[i]) /\ is_neighbor(as[i], a)
        THEN dehydrophobicize(as[i]) ELSE as[i]]

\* Lines 72-80: a carbon with a preceding hetero neighbour in the residue.
has_hetero_neighbor(as, a, start) ==
    \E i \in DOMAIN as : i > start /\ is_hetero(as[i]) /\ is_neighbor(as[i], a)

\* A cutoff test that lets the distance reach the cutoff.
within_cutoff_inclusive(d) == d <= Cutoff_Sqr

\* Lines 98 and 121: the test against the cutoff.
within_cutoff(d) == d < Cutoff_Sqr

\* Lines 92-102: the indices of the atoms within the cutoff of the box.
receptor_atoms_within_cutoff(as) ==
    SelectSeq([i \in DOMAIN as |-> i],
              LAMBDA i : within_cutoff(project_distance_sqr(as[i].coordinate)))

\* Lines 110-125: the list of one cell.
partition_of(as, cell) ==
    SelectSeq(receptor_atoms_within_cutoff(as),
              LAMBDA i : within_cutoff(project_distance_sqr3(
                             partition_corner1(cell),
                             partition_corner1(<<cell[1] + 1, cell[2] + 1, cell[3] + 1>>),
                             as[i].coordinate)))

IdleRC ==
    /\ results = <<>>
    /\ capacity = 1
    /\ required_square_error = 4
    /\ prev_results = <<>>
    /\ cand = NoResult
    /\ inserted = FALSE
    /\ inserted_e = {}

\* Lines 5-18.  residue_start is declared without a value (line 12): until
\* line 32 assigns it, a read of it yields whatever the build left there.
InitRec ==
    /\ rec_pc = "parsing"
    /\ num_lines = 0
    /\ residue = 0
    /\ residue_start \in 0..MaxLines
    /\ residues_read = <<>>
    /\ line_of = <<>>
    /\ atoms = <<>>
    /\ partitions = [c \in Cells |-> <<>>]
    /\ unknown_seen = FALSE

\* One iteration of the loop of lines 19-88 on an ATOM/HETATM line.
ParseAtomLine ==
    /\ rec_pc = "parsing"
    /\ num_lines < MaxLines
    /\ \E line \in AtomLines :
        LET new_residue == line.residue # residue
            start == IF new_residue THEN Len(atoms) ELSE residue_start
            ad == parse_ad_type_string(line.ad_type_string)
            a == atom(line.coordinate, ad)
        IN  /\ num_lines' = num_lines + 1
            /\ residue' = line.residue
            /\ residue_start' = start
            /\ residues_read' = Append(residues_read, line.residue)
            /\ line_of' = IF ad \in {"AD_TYPE_SIZE", "H"} THEN line_of
                          ELSE Append(line_of, Len(residues_read) + 1)
            /\ UNCHANGED partitions
            /\ IF ad = "AD_TYPE_SIZE"
               THEN \* line 38: continue
                    /\ unknown_seen' = TRUE
                    /\ UNCHANGED <<rec_pc, atoms>>
               ELSE /\ UNCHANGED <<unknown_seen, rec_pc>>
                    /\ IF ad = "H" THEN UNCHANGED atoms
                       ELSE IF ad = "HD"
                       THEN atoms' = Append(donorize_bonded(atoms, a, Len(atoms), start), a)
                       ELSE IF is_hetero(a)
                       THEN atoms' = Append(dehydrophobicize_bonded(atoms, a, start), a)
                       ELSE atoms' = Append(atoms,
                                IF has_hetero_neighbor(atoms, a, start)
                                THEN dehydrophobicize(a) ELSE a)
    /\ UNCHANGED <<rcvars, mcvars, sfvars>>

\* One iteration of the loop on a TER line or on any other record.
ParseOtherLine ==
    /\ rec_pc = "parsing"
    /\ num_lines < MaxLines
    /\ \E line \in OtherLines :
        /\ num_lines' = num_lines + 1
        /\ residue' = IF line.record = "TER   " THEN 0 ELSE residue
        /\ residues_read' = IF line.record = "TER   "
                            THEN Append(residues_read, 0 - 1) ELSE residues_read
    /\ UNCHANGED <<rec_pc, residue_start, line_of, atoms, partitions, unknown_seen>>
    /\ UNCHANGED <<rcvars, mcvars, sfvars>>

\* End of file: lines 89-126, the partitions are filled.
BuildPartitions ==
    /\ rec_pc = "parsing"
    /\ rec_pc' = "done"
    /\ partitions' = [c \in Cells |-> partition_of(atoms, c)]
    /\ UNCHANGED <<num_lines, residue, residue_start, residues_read, line_of,
                   atoms, unknown_seen>>
    /\ UNCHANGED <<rcvars, mcvars, sfvars>>

NextRec == ParseAtomLine \/ ParseOtherLine \/ BuildPartitions

\* ------------------------------------------------------------------------
\* Properties of the receptor constructor
\* ------------------------------------------------------------------------

\* C7: construction never completes normally after an ATOM/HETATM line with
\* an unknown AutoDock type: it ends in a parsing error instead.
C7_UnknownTypeAborts == unknown_seen => rec_pc # "done"

\* C8: atoms holds heavy atoms only: neither a non-polar hydrogen nor a polar
\* hydrogen is ever stored.
C8_HeavyAtomsOnly == \A i \in DOMAIN atoms : atoms[i].ad \notin {"H", "HD"}

\* The points of the cell with low corner index (integer coordinates).
CellPoints(cell) ==
    {<<x, y, z>> : x \in (box_corner1[1] + cell[1])..(box_corner1[1] + cell[1] + 1),
                   y \in (box_corner1[2] + cell[2])..(box_corner1[2] + cell[2] + 1),
                   z \in (box_corner1[3] + cell[3])..(box_corner1[3] + cell[3] + 1)}

\* Is the coordinate p closer than the cutoff to some point of the cell.
NearCell(cell, p) == \E q \in CellPoints(cell) : distance_sqr3(p, q) < Cutoff * Cutoff

\* C9: after construction the list of every cell holds exactly the indices of
\* the atoms whose distance squared to the cell is below Cutoff^2, each once
\* and in increasing order.
C9_PartitionsExact ==
    rec_pc = "done" =>
        \A c \in Cells :
            /\ {partitions[c][k] : k \in DOMAIN partitions[c]}
                   = {i \in DOMAIN atoms : NearCell(c, atoms[i].coordinate)}
            /\ \A k \in 1..(Len(partitions[c]) - 1) : partitions[c][k] < partitions[c][k + 1]

\* C9 witness: a receptor with an atom in the list of one cell but not of the
\* other, and an atom in no list.
C9_Witness ==
    /\ rec_pc = "done"
    /\ \E i, j \in DOMAIN atoms :
        /\ \E k \in DOMAIN partitions[<<0, 0, 0>>] : partitions[<<0, 0, 0>>][k] = i
        /\ \A k \in DOMAIN partitions[<<1, 0, 0>>] : partitions[<<1, 0, 0>>][k] # i
        /\ \A c \in Cells : \A k \in DOMAIN partitions[c] : partitions[c][k] # j

\* The file keeps the lines of a residue together: between two ATOM lines of
\* one residue sequence with no TER between them, every line is of it too.
residue_contiguous ==
    \A k, m \in DOMAIN residues_read :
        (k < m /\ residues_read[k] = residues_read[m]
               /\ \A l \in k..m : residues_read[l] >= 0)
            => \A l \in k..m : residues_read[l] = residues_read[k]

\* The stored atoms i and j come from lines of one residue: the same residue
\* sequence and no TER between the two lines.
same_residue(i, j) ==
    LET k == IF line_of[i] < line_of[j] THEN line_of[i] ELSE line_of[j]
        m == IF line_of[i] < line_of[j] THEN line_of[j] ELSE line_of[i]
    IN  /\ residues_read[k] = residues_read[m]
        /\ \A l \in k..m : residues_read[l] >= 0

\* C18: after the construction from a file in residue order, a stored carbon
\* has lost its hydrophobic flag exactly if a stored hetero atom of its own
\* residue is its neighbour, whichever of the two came first in the file; a
\* hetero neighbour of another residue leaves the flag set.
C18_CarbonNextToHetero ==
    (rec_pc = "done" /\ residue_contiguous) =>
        \A i \in DOMAIN atoms :
            atoms[i].ad = "C" =>
                (atoms[i].hydrophobic
                    = ~(\E j \in DOMAIN atoms :
                            /\ is_hetero(atoms[j])
                            /\ same_residue(i, j)
                            /\ is_neighbor(atoms[i], atoms[j])))

\* ------------------------------------------------------------------------
\* The result container as a state machine
\* ------------------------------------------------------------------------

InitRC ==
    /\ results = <<>>
    /\ capacity \in 1..MaxK
    /\ required_square_error \in RequiredSquareErrors
    /\ prev_results = <<>>
    /\ cand = NoResult
    /\ inserted = FALSE
    /\ inserted_e = {}

\* One call of add_to_result_container(results, r, required_square_error).
Insert ==
    \E r \in Results :
        \E s \in add_to_result_container(results, r, capacity, required_square_error) :
            /\ results' = s
            /\ prev_results' = results
            /\ cand' = r
            /\ inserted' = TRUE
            /\ inserted_e' = inserted_e \cup {r.e}
            /\ UNCHANGED <<capacity, required_square_error>>
            /\ UNCHANGED <<recvars, mcvars, sfvars>>

\* ------------------------------------------------------------------------
\* Properties of the result container
\* ------------------------------------------------------------------------

\* How often x occurs in the sequence s.
CountIn(s, x) == Cardinality({i \in DOMAIN s : s[i] = x})

\* s and t hold the same members, each as often.
SameContents(s, t) ==
    /\ Len(s) = Len(t)
    /\ \A i \in DOMAIN s : CountIn(s, s[i]) = CountIn(t, s[i])

\* The smallest distance from r to a member of the non-empty s.
MinSquareError(s, r) ==
    CHOOSE d \in {distance_sqr(r.heavy_atoms, s[i].heavy_atoms) : i \in DOMAIN s} :
        \A i \in DOMAIN s : d <= distance_sqr(r.heavy_atoms, s[i].heavy_atoms)

\* The first member of s at the smallest distance from r.
IStar(s, r) ==
    CHOOSE i \in DOMAIN s :
        /\ distance_sqr(r.heavy_atoms, s[i].heavy_atoms) = MinSquareError(s, r)
        /\ \A j \in 1..(i - 1) :
               distance_sqr(r.heavy_atoms, s[j].heavy_atoms) > MinSquareError(s, r)

IsNear == inserted /\ prev_results # <<>>
          /\ MinSquareError(prev_results, cand) < required_square_error

IsFar == inserted
         /\ \A i \in DOMAIN prev_results :
                distance_sqr(cand.heavy_atoms, prev_results[i].heavy_atoms)
                    >= required_square_error

\* C1: after any sequence of insertions the container is sorted ascending by
\* e: every adjacent pair has results[i].e <= results[i+1].e.
C1_SortedByEnergy ==
    \A i \in 1..(Len(results) - 1) : results[i].e <= results[i + 1].e

\* C1 witness: a far candidate was appended and the sort moved it to the front.
C1_Witness ==
    /\ IsFar
    /\ Len(prev_results) >= 1
    /\ Len(results) = Len(prev_results) + 1
    /\ results[1] = cand
    /\ cand.e < results[2].e

\* C2: no two distinct members are closer than the threshold unless one of
\* them is strictly better in energy than the other.
C2_DiverseOrBetter ==
    \A i, j \in DOMAIN results :
        (i # j /\ distance_sqr(results[i].heavy_atoms, results[j].heavy_atoms)
                      < required_square_error)
            => (results[i].e < results[j].e \/ results[j].e < results[i].e)

\* C3: the size of the container never exceeds its capacity, and an insertion
\* never decreases it.
C3_Bounded ==
    /\ Len(results) <= capacity
    /\ Len(results) >= Len(prev_results)

\* C3 witness: a far candidate was inserted into a full container.
C3_Witness ==
    /\ IsFar
    /\ Len(prev_results) = capacity
    /\ capacity >= 2
    /\ results # prev_results

\* C4: near case.  When the nearest member S[i*] of the non-empty container is
\* closer to r than the threshold, r replaces S[i*] if r.e < S[i*].e and is
\* dropped otherwise; the size is unchanged and no other member is removed.
C4_NearCase ==
    IsNear =>
        /\ Len(results) = Len(prev_results)
        /\ IF cand.e < prev_results[IStar(prev_results, cand)].e
           THEN SameContents(results,
                             [prev_results EXCEPT ![IStar(prev_results, cand)] = cand])
           ELSE SameContents(results, prev_results)

\* C4 witness: a near candidate replaced its nearest member, which was not the
\* first member of a container of two or more.
C4_Witness ==
    /\ IsNear
    /\ Len(prev_results) >= 2
    /\ IStar(prev_results, cand) > 1
    /\ cand.e < prev_results[IStar(prev_results, cand)].e
    /\ CountIn(results, cand) > CountIn(prev_results, cand)

\* C5: far case.  When every member is at least the threshold away from r, r
\* is appended if the size is below the capacity; in a full container r
\* replaces the last member, which has the highest e, if r.e is strictly less
\* than that member's e, and is dropped otherwise.
C5_FarCase ==
    IsFar =>
        IF Len(prev_results) < capacity
        THEN SameContents(results, Append(prev_results, cand))
        ELSE /\ \A i \in DOMAIN prev_results :
                    prev_results[i].e <= prev_results[Len(prev_results)].e
             /\ IF cand.e < prev_results[Len(prev_results)].e
                THEN SameContents(results,
                                  [prev_results EXCEPT ![Len(prev_results)] = cand])
                ELSE SameContents(results, prev_results)

\* C5 witness: a far candidate replaced the worst member of a full container
\* of two or more.
C5_Witness ==
    /\ IsFar
    /\ Len(prev_results) = capacity
    /\ capacity >= 2
    /\ cand.e < prev_results[Len(prev_results)].e
    /\ CountIn(results, cand) > CountIn(prev_results, cand)

\* C20: the best pose is never lost: after any sequence of insertions the e
\* of the first member is the smallest e of all candidates inserted so far.
C20_BestNeverLost ==
    inserted =>
        /\ results # <<>>
        /\ results[1].e \in inserted_e
        /\ \A e \in inserted_e : results[1].e <= e

\* C20 witness: the last candidate has replaced a member of a full container
\* and is worse than the first member, which was inserted before it.
C20_Witness ==
    /\ inserted
    /\ Len(prev_results) = capacity
    /\ Cardinality(inserted_e) >= 2
    /\ results[1].e < cand.e
    /\ results # prev_results

\* ------------------------------------------------------------------------
\* Numbers of the Monte Carlo task
\* ------------------------------------------------------------------------
\* Every float of the task is a fixed-point integer, rounded to the nearest:
\* lengths, angles, gradients, p and h count in 1/Unit, free energies and
\* inner products in 1/EnergyUnit, the components of a quaternion in
\* 1/QuaternionUnit.  Products that exceed 32 bits are computed in pieces.
\* The arithmetic is written as functions, whose arguments are values.

Unit == 10 * 10 * 10

EnergyUnit == Unit * Unit

\* alpha is kept in units of 1/AlphaUnit, which holds 1, 0.1, ..., 0.0001.
AlphaUnit == 100 * 100

QuaternionUnit == 100 * 100

num_alphas == 5
num_mc_iterations == 50
pi == (314159 * Unit) \div 100000

\* The ligand and the search box of the model.
lig == [num_active_torsions |-> 1, num_heavy_atoms |-> 1]
rec == [center |-> <<0, 0, 0>>, span |-> <<3 * Unit, Unit, 2 * Unit>>]

num_variables == 6 + lig.num_active_torsions
e_upper_bound == 40 * lig.num_heavy_atoms * EnergyUnit

Variables == 1..num_variables

sign(x) == IF x > 0 THEN 1 ELSE IF x < 0 THEN 0 - 1 ELSE 0

abs(x) == IF x < 0 THEN 0 - x ELSE x

\* x / y rounded to the nearest integer, halves away from zero; y > 0.
round_div[x \in Int, y \in Int] ==
    LET a == abs(x)
        r == a % y
        q == (a \div y) + (IF r >= y - r THEN 1 ELSE 0)
    IN  IF x < 0 THEN 0 - q ELSE q

\* x / y rounded towards plus infinity, y > 0.
ceil_div(x, y) == 0 - ((0 - x) \div y)

\* One step of Horner's rule: the <<q, r>> of x * base + t from the qr of x.
horner_step[qr \in Seq(Int), t \in Int, d \in Int, base \in Int] ==
    LET rb == qr[2] * base
        rr == (rb % d) + (t % d)
    IN  <<qr[1] * base + (rb \div d) + (t \div d) + (rr \div d), rr % d>>

\* a * b = q * d + r with 0 <= r < d, as <<q, r>>, for a, b >= 0 and d > 0:
\* Horner's rule over the digits of b, so that no intermediate value is
\* beyond 32 bits.
quotient_remainder[a \in Int, b \in Int, d \in Int, base \in Int] ==
    IF b = 0 THEN <<0, 0>>
    ELSE horner_step[quotient_remainder[a, b \div base, d, base], a * (b % base), d, base]

\* q + r / d rounded to the nearest integer, for qr = <<q, r>>.
rounded[qr \in Seq(Int), d \in Int] == qr[1] + (IF qr[2] >= d - qr[2] THEN 1 ELSE 0)

\* The digits Horner's rule may take for a and d.
base_for(a, d) == IF a < 2 * 10000 * 10000 /\ d < 2 * 10000 * 10000 THEN 10 ELSE 2

\* a * b / d rounded to the nearest integer, d > 0.
times_over[a \in Int, b \in Int, d \in Int] ==
    sign(a) * sign(b)
        * rounded[quotient_remainder[abs(a), abs(b), d, base_for(abs(a), d)], d]

\* The largest c in lo..hi with c * c <= n.
sqrt_between[n \in Int, lo \in Int, hi \in Int] ==
    IF lo = hi THEN lo
    ELSE LET mid == (lo + hi + 1) \div 2
         IN  IF mid * mid <= n THEN sqrt_between[n, mid, hi]
             ELSE sqrt_between[n, lo, mid - 1]

\* The integer part of the square root of n < 2^31.
sqrt_floor[n \in Int] == sqrt_between[n, 0, 46340]

\* alpha * x, for alpha = AlphaUnit / 10^k in units of 1/AlphaUnit.
times_alpha(alpha, x) == round_div[x, AlphaUnit \div alpha]

\* The sum of f[i] over i in 1..n.
sum_to[f \in Seq(Int), n \in Nat] == IF n = 0 THEN 0 ELSE f[n] + sum_to[f, n - 1]

\* The inner product of two changes, in 1/EnergyUnit.
dot[a \in Seq(Int), b \in Seq(Int)] ==
    sum_to[[i \in Variables |-> a[i] * b[i]], num_variables]

\* ------------------------------------------------------------------------
\* Random numbers: mt19937_64 eng(seed) and uniform_11(eng)
\* ------------------------------------------------------------------------

\* The engine after one draw (a linear congruential generator).
engine_next(s) == (s * 75 + 74) % 65537

\* The engine after n draws.
RECURSIVE engine_after(_, _)
engine_after(s, n) == IF n = 0 THEN s ELSE engine_after(engine_next(s), n - 1)

\* The n-th number uniform_11 draws from the engine s: in [-1, 1).
uniform_11(s, n) == (engine_after(s, n) % (2 * Unit)) - Unit

\* The order in which a build evaluates the arguments of a call is
\* unspecified: a build takes them all from left to right or all from right to
\* left.
ArgumentOrders == {"left_to_right", "right_to_left"}

\* The draw that the k-th of the n arguments uniform_11(eng), ...,
\* uniform_11(eng) of a call receives.
argument_draw(order, n, k) == IF order = "left_to_right" THEN k ELSE n + 1 - k

\* The tasks a pool runs.
Tasks == {1, 2}

\* An engine that all tasks share.
engine_shared(t) == 1

\* The engine task t draws from: the local eng of its call (line 21).
engine_of(t) == t

\* ------------------------------------------------------------------------
\* qtn4
\* ------------------------------------------------------------------------
\* A quaternion is <<w, x, y, z>> in 1/QuaternionUnit.  Sines and cosines are
\* computed in 1/Fine.

Fine == 1000 * 1000

\* qtn4id: the identity rotation.
qtn4id == <<QuaternionUnit, 0, 0, 0>>

\* norm_sqr of a quaternion.
norm_sqr(q) == sqr(q[1]) + sqr(q[2]) + sqr(q[3]) + sqr(q[4])

\* qtn4::normalize: q / |q|, whatever the unit of q.  The component
\* v / sqrt(s) is the square root of v * v / s, rounded to the nearest.
rounded_sqrt[x \in Seq(Int), c \in Int, s \in Int] ==
    IF \/ x[1] > c * c + c
       \/ x[1] = c * c + c /\ 4 * x[2] >= s
    THEN c + 1 ELSE c
sqrt_of[x \in Seq(Int), s \in Int] == rounded_sqrt[x, sqrt_floor[x[1]], s]
normalized_component[v \in Int, s \in Int] ==
    sign(v) * sqrt_of[quotient_remainder[v * v, QuaternionUnit * QuaternionUnit, s, 10], s]
normalize[q \in Seq(Int)] == [i \in 1..4 |-> normalized_component[q[i], norm_sqr(q)]]

\* qtn4 operator*: the Hamilton product, the rotation b followed by a.
qtn4_product[a \in Seq(Int), b \in Seq(Int)] ==
    <<round_div[a[1] * b[1] - a[2] * b[2] - a[3] * b[3] - a[4] * b[4], QuaternionUnit],
      round_div[a[1] * b[2] + a[2] * b[1] + a[3] * b[4] - a[4] * b[3], QuaternionUnit],
      round_div[a[1] * b[3] - a[2] * b[4] + a[3] * b[1] + a[4] * b[2], QuaternionUnit],
      round_div[a[1] * b[4] + a[2] * b[3] - a[3] * b[2] + a[4] * b[1], QuaternionUnit]>>

\* a * b / Fine for a and b in 1/Fine, by limbs of three digits.
fine_product[a \in Int, b \in Int] ==
    LET a1 == a \div 1000
        a0 == a % 1000
        b1 == b \div 1000
        b0 == b % 1000
    IN  a1 * b1 + ((a1 * b0 + a0 * b1 + ((a0 * b0 + 500) \div 1000) + 500) \div 1000)

\* The square of a unit quaternion in 1/Fine: the rotation by twice the angle.
fine_square[q \in Seq(Int)] ==
    <<fine_product[q[1], q[1]] - fine_product[q[2], q[2]]
          - fine_product[q[3], q[3]] - fine_product[q[4], q[4]],
      2 * fine_product[q[1], q[2]],
      2 * fine_product[q[1], q[3]],
      2 * fine_product[q[1], q[4]]>>

\* q squared m times.
fine_power[q \in Seq(Int), m \in Nat] ==
    IF m = 0 THEN q ELSE fine_power[fine_square[q], m - 1]

pow2[m \in Nat] == IF m = 0 THEN 1 ELSE 2 * pow2[m - 1]

\* The number of times a rotation vector, of largest component a in
\* 1/(10 * Fine) rad, is halved to bring its components within half a radian.
halvings[a \in Int, m \in Nat] ==
    IF a <= 5 * Fine * pow2[m] THEN m ELSE halvings[a, m + 1]

\* cos(a) and sin(a) / a as <<c, s>> by their series in x = a^2, in 1/Fine,
\* for a within a radian.
cos_sinc[x \in Int] ==
    LET x2 == fine_product[x, x]
        x3 == fine_product[x2, x]
    IN  <<Fine - round_div[x, 2] + round_div[x2, 24] - round_div[x3, 720],
          Fine - round_div[x, 6] + round_div[x2, 120] - round_div[x3, 5040]>>

\* (c, s * v / 2) for cs = <<c, s>>.
axis_times[cs \in Seq(Int), v \in Seq(Int)] ==
    <<cs[1], round_div[fine_product[cs[2], v[1]], 2],
      round_div[fine_product[cs[2], v[2]], 2], round_div[fine_product[cs[2], v[3]], 2]>>

\* The quaternion of a rotation vector v in 1/Fine rad with components within
\* half a radian: (cos(|v|/2), sin(|v|/2) * v/|v|), in 1/Fine.
qtn4_small[v \in Seq(Int)] ==
    axis_times[cos_sinc[round_div[fine_product[v[1], v[1]] + fine_product[v[2], v[2]]
                                      + fine_product[v[3], v[3]], 4]], v]

\* qtn4(const vec3& rotation): the rotation about the axis v by the angle
\* |v|, for v in 1/(Unit * AlphaUnit) rad; qtn4id for the zero vector.
largest[a \in Int, b \in Int, c \in Int] ==
    IF a >= b /\ a >= c THEN a ELSE IF b >= c THEN b ELSE c
qtn4_halved[v \in Seq(Int), m \in Nat] ==
    fine_power[qtn4_small[<<round_div[v[1], 10 * pow2[m]], round_div[v[2], 10 * pow2[m]],
                            round_div[v[3], 10 * pow2[m]]>>], m]
in_quaternion_unit[q \in Seq(Int)] ==
    <<round_div[q[1], Fine \div QuaternionUnit], round_div[q[2], Fine \div QuaternionUnit],
      round_div[q[3], Fine \div QuaternionUnit], round_div[q[4], Fine \div QuaternionUnit]>>
qtn4[v \in Seq(Int)] ==
    in_quaternion_unit[qtn4_halved[v, halvings[largest[abs(v[1]), abs(v[2]), abs(v[3])], 0]]]

\* ------------------------------------------------------------------------
\* conformation, change, triangular_matrix, result
\* ------------------------------------------------------------------------

\* The coordinates of a vec3.
Axes == 1..3

\* conformation: position, orientation, torsions.
Conformations == [position : Seq(Int), orientation : Seq(Int), torsions : Seq(Int)]

\* conformation::conformation: zero position, identity orientation, zero
\* torsions.
conformation(num_active_torsions) ==
    [position |-> <<0, 0, 0>>, orientation |-> qtn4id,
     torsions |-> [i \in 1..num_active_torsions |-> 0]]

\* vector<float>(6 + T): a zero change.
change(num_active_torsions) == [i \in 1..(6 + num_active_torsions) |-> 0]

\* triangular_matrix_restrictive_index(i, j), i <= j, and
\* triangular_matrix_permissive_index(i, j); 1-based.
triangular_matrix_restrictive_index(i, j) == i + ((j - 1) * j) \div 2
triangular_matrix_permissive_index(i, j) ==
    IF i <= j THEN triangular_matrix_restrictive_index(i, j)
    ELSE triangular_matrix_restrictive_index(j, i)

\* Lines 50-52: the identity as a packed symmetric matrix.
identity_hessian ==
    [k \in 1..((num_variables * (num_variables + 1)) \div 2) |->
        IF \E i \in Variables : k = triangular_matrix_restrictive_index(i, i)
        THEN Unit ELSE 0]

\* ligand::compose_result(e, c): the result of a conformation; the one heavy
\* atom of the ligand stands at the position of the conformation.
compose_result(e, c) == [e |-> e, heavy_atoms |-> <<c.position>>]

\* ------------------------------------------------------------------------
\* ligand::evaluate
\* ------------------------------------------------------------------------
\* The free energy of the model's ligand in the model's receptor:
\*   f = lowest_energy + sum k[i] * (position[i] - minimum[i])^2
\*                     + sum kr[i] * v[i]^2,   v = (x, y, z) of the orientation
\*   e = f + sum kt * wrapped(torsion - minimum)^2
\* The gradient has the derivative by the position, the torque
\* kr[i] * w * v[i] + (kr[i+2] - kr[i+1]) * v[i+1] * v[i+2] (the derivative
\* by a rotation about each axis) and the derivative by the torsions.

\* Angles count modulo 2 pi.
wrapped(d) == ((d + pi) % (2 * pi)) - pi

\* The conformation of the lowest free energy: position (2, 0.5, 1), identity
\* orientation, torsions -3; its free energy is -8.
minimum == [position |-> <<2 * Unit, Unit \div 2, Unit>>, torsion |-> 0 - 3 * Unit]
lowest_energy == 0 - 8 * EnergyUnit

\* The stiffness of each variable, in units of 1/StiffnessUnit: some are
\* soft, so that a step may lower the energy and leave the slope steep.
StiffnessUnit == 10 * 10
stiffness ==
    [position |-> <<2 * StiffnessUnit, 4, StiffnessUnit>>,
     orientation |-> <<StiffnessUnit, 4, StiffnessUnit \div 2>>,
     torsion |-> 12]

\* The offset of the position and of the torsions from the minimum.
offset[c \in Conformations] ==
    [position |-> [k \in Axes |-> c.position[k] - minimum.position[k]],
     torsions |-> [i \in 1..lig.num_active_torsions |->
                      wrapped(c.torsions[i] - minimum.torsion)]]

\* The sum of two pairs.
plus2[a \in Seq(Int), b \in Seq(Int)] == <<a[1] + b[1], a[2] + b[2]>>

\* The sum of k[i] * x[i]^2 / d over i in 1..n: its integer part and the
\* numerator of its fraction, as <<whole, rest>>.
squares_over[k \in Seq(Int), x \in Seq(Int), d \in Int, n \in Nat] ==
    IF n = 0 THEN <<0, 0>>
    ELSE plus2[squares_over[k, x, d, n - 1],
               <<k[n] * ((x[n] * x[n]) \div d), k[n] * ((x[n] * x[n]) % d)>>]

\* The inter-molecular free energy f, the total free energy e, the gradient.
inter_sum[a \in Seq(Int), b \in Seq(Int)] ==
    a[1] + b[1] + round_div[a[2] * StiffnessUnit + b[2], StiffnessUnit * StiffnessUnit]
        + lowest_energy
inter_energy[c \in Conformations] ==
    inter_sum[squares_over[stiffness.position, offset[c].position, StiffnessUnit, 3],
              squares_over[stiffness.orientation,
                           <<c.orientation[2], c.orientation[3], c.orientation[4]>>,
                           StiffnessUnit * StiffnessUnit, 3]]
intra_sum[a \in Seq(Int)] == a[1] + round_div[a[2], StiffnessUnit]
intra_energy[c \in Conformations] ==
    intra_sum[squares_over[[i \in 1..lig.num_active_torsions |-> stiffness.torsion],
                           offset[c].torsions, StiffnessUnit, lig.num_active_torsions]]
gradient[c \in Conformations] ==
    LET o == offset[c]
        w == c.orientation[1]
        v == <<c.orientation[2], c.orientation[3], c.orientation[4]>>
        kr == stiffness.orientation
        next(i) == (i % 3) + 1
        torque(i) == kr[i] * round_div[w * v[i], 100]
                       + (kr[next(next(i))] - kr[next(i)])
                           * round_div[v[next(i)] * v[next(next(i))], 100]
    IN  [i \in Variables |->
            IF i <= 3 THEN round_div[2 * stiffness.position[i] * o.position[i], StiffnessUnit]
            ELSE IF i <= 6 THEN round_div[torque(i - 3), 100 * Unit]
            ELSE round_div[2 * stiffness.torsion * o.torsions[i - 6], StiffnessUnit]]

\* evaluate(c, sf, rec, e_upper_bound, e, f, g): e and f are always written;
\* a conformation whose e is not better than e_upper_bound is refused, and g
\* is then left as it was.
evaluate[c \in Conformations, upper_bound \in Int, g \in Seq(Int)] ==
    LET f == inter_energy[c]
        e == f + intra_energy[c]
    IN  [ok |-> e < upper_bound,
         e |-> e,
         f |-> f,
         g |-> IF e < upper_bound THEN gradient[c] ELSE g]

\* ------------------------------------------------------------------------
\* monte_carlo_task (src/monte_carlo_task.cpp)
\* ------------------------------------------------------------------------

\* Lines 78-95: the descent direction p = -h*g1, pg1 = p*g1, alpha = 1.  A
\* Hessian that is not finite leaves p and pg1 not finite.
descent[h \in Seq(Int), g \in Seq(Int)] ==
    [i \in Variables |->
        0 - round_div[sum_to[[j \in Variables |->
                h[triangular_matrix_permissive_index(i, j)] * g[j]], num_variables], Unit]]
direction(ts) ==
    LET p == descent[ts.h, ts.g1]
    IN  [ts EXCEPT !.p = p, !.pg1 = dot[p, ts.g1], !.alpha = AlphaUnit,
                   !.num_alpha_trials = 0, !.pc = "trial"]

\* Lines 21-58: the random start, its evaluation, the first result.  The
\* position takes the first draw; the four arguments of qtn4 at line 30 take
\* the next four in the order of the build; the torsions take the rest.
random_start(ts, seed, order) ==
    LET c0 == [position |-> [k \in Axes |->
                   rec.center[k] + round_div[uniform_11(seed, 1) * rec.span[k], Unit]],
               orientation |-> normalize[[k \in 1..4 |->
                   uniform_11(seed, 1 + argument_draw(order, 4, k))]],
               torsions |-> [i \in 1..lig.num_active_torsions |-> uniform_11(seed, 5 + i)]]
        ev == evaluate[c0, e_upper_bound, change(lig.num_active_torsions)]
    IN  [ts EXCEPT !.c0 = c0, !.e0 = ev.e, !.f0 = ev.f, !.g0 = ev.g,
                   !.r = compose_result(ev.e, c0),
                   !.h = identity_hessian, !.h_finite = TRUE,
                   !.mc_i = 0, !.pc = "mutate"]

\* The number of draws of the random start (lines 29-34: one for the
\* position, four for the orientation, one for each torsion) and of one
\* mutation (line 65).
draws_of_start == 5 + lig.num_active_torsions
draws_of_mutation == 1 + 2

\* A mutation that perturbs the torsions as well as the position.
mutate_torsions(ts, engine, order) ==
    LET c1 == [ts.c0 EXCEPT !.position = [k \in Axes |->
                                ts.c0.position[k]
                                    + uniform_11(engine, argument_draw(order, 3, k))],
                            !.torsions = [i \in 1..lig.num_active_torsions |->
                                            ts.c0.torsions[i] + uniform_11(engine, 3 + i)]]
        ev == evaluate[c1, e_upper_bound, ts.g1]
    IN  direction([ts EXCEPT !.c1 = c1, !.e1 = ev.e, !.f1 = ev.f, !.g1 = ev.g,
                             !.h = identity_hessian, !.h_finite = TRUE])

\* Lines 63-69 and 78-95: the mutated copy of c0, its evaluation, the
\* identity Hessian, the first descent direction.  The three arguments of
\* vec3 at line 65 take the three draws in the order of the build.
mutate(ts, engine, order) ==
    LET c1 == [ts.c0 EXCEPT !.position = [k \in Axes |->
                                ts.c0.position[k]
                                    + uniform_11(engine, argument_draw(order, 3, k))]]
        ev == evaluate[c1, e_upper_bound, ts.g1]
    IN  direction([ts EXCEPT !.c1 = c1, !.e1 = ev.e, !.f1 = ev.f, !.g1 = ev.g,
                             !.h = identity_hessian, !.h_finite = TRUE])

\* Lines 99-106: c2 = c1 + alpha * p; the orientation is the rotation
\* qtn4(alpha * p[3..5]) applied after that of c1.
step(c1, alpha, p) ==
    [position |-> [k \in Axes |-> c1.position[k] + times_alpha(alpha, p[k])],
     orientation |-> qtn4_product[qtn4[<<alpha * p[4], alpha * p[5], alpha * p[6]>>],
                                  c1.orientation],
     torsions |-> [i \in 1..lig.num_active_torsions |->
                      c1.torsions[i] + times_alpha(alpha, p[6 + i])]]

\* Line 111: e1 + 0.0001f * alpha * pg1 as a bound on the integer e2.
armijo_bound(e1, alpha, pg1) ==
    e1 + ceil_div(pg1, 10000 * (AlphaUnit \div alpha))

\* A line search without the curvature condition.
curvature_ignored(pg2, pg1) == TRUE

\* Line 116: pg2 >= 0.9f * pg1, as pg2 - pg1 >= -pg1 / 10.
curvature_holds(pg2, pg1) == pg2 - pg1 >= ceil_div(0 - pg1, 10)

\* A failed trial that is tried again as it is.
failed_trial_retried(ts) == ts

\* A failed trial after which the search moves on to the refused c2.
failed_trial_moved(ts) ==
    [ts EXCEPT !.alpha = ts.alpha \div 10,
               !.num_alpha_trials = ts.num_alpha_trials + 1,
               !.pc = IF ts.num_alpha_trials + 1 = num_alphas
                      THEN "metropolis" ELSE "trial",
               !.c1 = ts.c2, !.e1 = ts.e2, !.f1 = ts.f2, !.g1 = ts.g2]

\* Lines 120, 96 and 124: after a failed trial alpha shrinks to a tenth and
\* the trials are counted; the BFGS loop is left after num_alphas of them.
failed_trial(ts) ==
    [ts EXCEPT !.alpha = ts.alpha \div 10,
               !.num_alpha_trials = ts.num_alpha_trials + 1,
               !.pc = IF ts.num_alpha_trials + 1 = num_alphas
                      THEN "metropolis" ELSE "trial"]

\* Lines 96-124: one trial of the line search.  After the trial the search
\* has found alpha ("update"), has used up its trials ("metropolis") or goes
\* on with a tenth of alpha ("trial").
trial(ts) ==
    LET c2 == step(ts.c1, ts.alpha, ts.p)
        ev == evaluate[c2, armijo_bound(ts.e1, ts.alpha, ts.pg1), ts.g2]
        pg2 == dot[ts.p, ev.g]
        found == ts.h_finite /\ ev.ok /\ curvature_holds(pg2, ts.pg1)
        tried == [ts EXCEPT !.c2 = c2, !.e2 = ev.e, !.f2 = ev.f, !.g2 = ev.g,
                            !.pg2 = IF ev.ok THEN pg2 ELSE ts.pg2]
    IN  IF found THEN [tried EXCEPT !.pc = "update"]
        ELSE failed_trial(tried)

\* The quotients by yp are computed with three more digits than h has.
Guard == 1000

\* Lines 126-148: the BFGS update of h,
\*   h[i][j] += ryp * (mhy[i] * p[j] + mhy[j] * p[i]) + pco * p[i] * p[j],
\* for yp # 0.  mhy and yp are exact, in 1/EnergyUnit; cm is
\* ryp * yhy + alpha, the factor of pco, in 1/(Guard * Unit).
hessian_plus[h \in Seq(Int), p \in Seq(Int), mhy \in Seq(Int), yp \in Int, cm \in Int] ==
    [k \in DOMAIN h |->
        LET j == CHOOSE j \in Variables :
                     /\ triangular_matrix_restrictive_index(1, j) <= k
                     /\ k <= triangular_matrix_restrictive_index(j, j)
            i == k + 1 - triangular_matrix_restrictive_index(1, j)
        IN  h[k] + round_div[sign(yp) * (times_over[mhy[i], Guard * p[j], abs(yp)]
                                           + times_over[mhy[j], Guard * p[i], abs(yp)]
                                           + times_over[cm, p[i] * p[j], abs(yp)]), Guard]]
pco_factor[y \in Seq(Int), mhy \in Seq(Int), yp \in Int, alpha \in Int] ==
    sign(yp) * sum_to[[i \in Variables |->
                         times_over[(0 - y[i]) * Guard, mhy[i], abs(yp)]], num_variables]
        + (Guard * Unit) \div (AlphaUnit \div alpha)
minus_h_times[h \in Seq(Int), y \in Seq(Int)] ==
    [i \in Variables |->
        0 - sum_to[[j \in Variables |->
                h[triangular_matrix_permissive_index(i, j)] * y[j]], num_variables]]
hessian_with[h \in Seq(Int), p \in Seq(Int), y \in Seq(Int), mhy \in Seq(Int), alpha \in Int] ==
    hessian_plus[h, p, mhy, dot[y, p], pco_factor[y, mhy, dot[y, p], alpha]]
updated_hessian(h, p, g1, g2, alpha) ==
    hessian_with[h, p, [i \in Variables |-> g2[i] - g1[i]],
                 minus_h_times[h, [i \in Variables |-> g2[i] - g1[i]]], alpha]

\* Lines 126-154 and 78-95: update h, move c1 to c2, next descent direction.
\* With yp = 0 the reciprocal ryp is infinite and h is no longer finite.
update(ts) ==
    LET y == [i \in Variables |-> ts.g2[i] - ts.g1[i]]
        finite == dot[y, ts.p] # 0
    IN  direction([ts EXCEPT
            !.h = IF finite THEN updated_hessian(ts.h, ts.p, ts.g1, ts.g2, ts.alpha)
                  ELSE ts.h,
            !.h_finite = finite,
            !.c1 = ts.c2, !.e1 = ts.e2, !.f1 = ts.f2, !.g1 = ts.g2])

\* A Metropolis criterion that also accepts a conformation of equal energy.
accepts_not_strict(e1, e0) == e1 <= e0

\* Line 158: the Metropolis criterion.
accepts(e1, e0) == e1 < e0

\* Lines 157-166: accept c1 if it is better; the next iteration or return.
metropolis(ts) ==
    LET next == [ts EXCEPT !.mc_i = ts.mc_i + 1,
                           !.pc = IF ts.mc_i + 1 < num_mc_iterations
                                  THEN "mutate" ELSE "done"]
    IN  IF accepts(ts.e1, ts.e0)
        THEN [next EXCEPT !.r = compose_result(ts.e1, ts.c1),
                          !.c0 = ts.c1, !.e0 = ts.e1]
        ELSE next

\* ------------------------------------------------------------------------
\* Monte Carlo tasks as a state machine
\* ------------------------------------------------------------------------

\* The locals of a call of monte_carlo_task before its first statement.
task_of(seed) ==
    [pc |-> "init", seed |-> seed, mc_i |-> 0,
     c0 |-> conformation(lig.num_active_torsions), e0 |-> 0, f0 |-> 0,
     g0 |-> change(lig.num_active_torsions),
     c1 |-> conformation(lig.num_active_torsions), e1 |-> 0, f1 |-> 0,
     g1 |-> change(lig.num_active_torsions),
     c2 |-> conformation(lig.num_active_torsions), e2 |-> 0, f2 |-> 0,
     g2 |-> change(lig.num_active_torsions),
     p |-> change(lig.num_active_torsions), alpha |-> 0, pg1 |-> 0, pg2 |-> 0,
     num_alpha_trials |-> 0, h |-> identity_hessian, h_finite |-> TRUE,
     r |-> NoResult,
     \* history: steps taken, (c0, e0, r) before the last Metropolis step, the
     \* lowest of the initial e0 and the e1 of the Metropolis steps so far
     steps |-> 0,
     old |-> [c0 |-> conformation(lig.num_active_torsions), e0 |-> 0, r |-> NoResult],
     best |-> 0]

Seeds == 1..NumSeeds
PoolSeeds == 1..NumPoolSeeds

\* No task.
IdleMC == mc = <<>> /\ eng = <<>> /\ workers = 0 /\ argument_order = "left_to_right"

\* One call of monte_carlo_task.
InitMC ==
    /\ mc \in {[t \in {1} |-> task_of(seed)] : seed \in Seeds}
    /\ eng = [t \in {1} |-> 0]
    /\ workers = 1
    /\ argument_order \in ArgumentOrders

\* The tasks of one ligand, handed to a pool of one or more workers.  Tasks
\* are interchangeable, so the seeds are taken in ascending order.
InitPool ==
    /\ mc \in {[t \in Tasks |-> task_of(seeds[t])] :
                  seeds \in {s \in [Tasks -> PoolSeeds] : s[1] <= s[2]}}
    /\ eng = [t \in Tasks |-> 0]
    /\ workers \in 1..Cardinality(Tasks)
    /\ argument_order \in ArgumentOrders

\* A worker is free to run another task.
worker_free ==
    Cardinality({t \in DOMAIN mc : mc[t].pc \notin {"init", "done"}}) < workers

\* The tasks that run at the same time are followed while none is more than
\* MaxLead steps ahead of another: task t may take its next step.
may_step(t) ==
    \A u \in DOMAIN mc :
        mc[u].pc \notin {"init", "done"} => mc[t].steps < mc[u].steps + MaxLead

\* Lines 21-58.
StartTask(t) ==
    /\ mc[t].pc = "init"
    /\ worker_free
    /\ \A u \in DOMAIN mc : mc[u].pc \notin {"init", "done"} => mc[u].steps <= MaxLead
    /\ eng' = [eng EXCEPT ![engine_of(t)] = engine_after(mc[t].seed, draws_of_start)]
    /\ mc' = [mc EXCEPT ![t] =
                LET ts == random_start(mc[t], mc[t].seed, argument_order)
                IN  [ts EXCEPT !.steps = 1,
                               !.old = [c0 |-> ts.c0, e0 |-> ts.e0, r |-> ts.r],
                               !.best = ts.e0]]
    /\ UNCHANGED <<workers, argument_order, rcvars, recvars, sfvars>>

\* Lines 60-95: the start of an iteration of the Monte Carlo loop.
Mutate(t) ==
    /\ mc[t].pc = "mutate"
    /\ mc[t].steps < MaxSteps
    /\ may_step(t)
    /\ eng' = [eng EXCEPT ![engine_of(t)] = engine_after(eng[engine_of(t)], draws_of_mutation)]
    /\ mc' = [mc EXCEPT ![t] =
                [mutate(mc[t], eng[engine_of(t)], argument_order)
                    EXCEPT !.steps = mc[t].steps + 1]]
    /\ UNCHANGED <<workers, argument_order, rcvars, recvars, sfvars>>

\* Lines 96-124: one trial of the line search.
Trial(t) ==
    /\ mc[t].pc = "trial"
    /\ mc[t].steps < MaxSteps
    /\ may_step(t)
    /\ mc' = [mc EXCEPT ![t] = [trial(mc[t]) EXCEPT !.steps = mc[t].steps + 1]]
    /\ UNCHANGED <<eng, workers, argument_order, rcvars, recvars, sfvars>>

\* Lines 126-154, then 78-95.
Update(t) ==
    /\ mc[t].pc = "update"
    /\ mc[t].steps < MaxSteps
    /\ may_step(t)
    /\ mc' = [mc EXCEPT ![t] = [update(mc[t]) EXCEPT !.steps = mc[t].steps + 1]]
    /\ UNCHANGED <<eng, workers, argument_order, rcvars, recvars, sfvars>>

\* Lines 157-167.
Metropolis(t) ==
    /\ mc[t].pc = "metropolis"
    /\ mc[t].steps < MaxSteps
    /\ may_step(t)
    /\ mc' = [mc EXCEPT ![t] =
                [metropolis(mc[t]) EXCEPT
                    !.steps = mc[t].steps + 1,
                    !.old = [c0 |-> mc[t].c0, e0 |-> mc[t].e0, r |-> mc[t].r],
                    !.best = IF mc[t].e1 < mc[t].best THEN mc[t].e1 ELSE mc[t].best]]
    /\ UNCHANGED <<eng, workers, argument_order, rcvars, recvars, sfvars>>

NextMC ==
    \/ \E t \in DOMAIN mc : StartTask(t)
    \/ \E t \in DOMAIN mc : Mutate(t)
    \/ \E t \in DOMAIN mc : Trial(t)
    \/ \E t \in DOMAIN mc : Update(t)

    \/ \E t \in DOMAIN mc : Metropolis(t)

\* ------------------------------------------------------------------------
\* Properties of the Monte Carlo task
\* ------------------------------------------------------------------------

\* C6: tasks with the same seed (and the same ligand, scoring function and
\* receptor) go through the same local states step by step and return the
\* same result, whatever the number of workers and however the steps of the
\* tasks interleave.
C6_Reproducible ==
    \A t, u \in DOMAIN mc :
        mc[t].seed = mc[u].seed =>
            /\ mc[t].steps = mc[u].steps => mc[t] = mc[u]
            /\ (mc[t].pc = "done" /\ mc[u].pc = "done") => mc[t].r = mc[u].r

\* C6 witness: two tasks with the same seed run at the same time on two
\* workers; both are in the line search of a later iteration, after the same
\* number of steps, each having drawn its mutations from its engine.
C6_Witness ==
    /\ workers = 2
    /\ DOMAIN mc = Tasks
    /\ mc[1].seed = mc[2].seed
    /\ mc[1].pc = "trial" /\ mc[2].pc = "trial"
    /\ mc[1].mc_i > 1
    /\ mc[1].steps = mc[2].steps
    /\ eng[1] = eng[2]

\* C10: at the end of every Monte Carlo iteration (c0, e0) and r are replaced
\* by (c1, e1) and compose_result(e1, c1) if e1 < e0 strictly and are
\* unchanged otherwise; e0 never increases; when the task returns, r is the
\* result composed for the lowest of the initial e0 and the e1 of all
\* iterations.
C10_AcceptOnlyBetter ==
    \A t \in DOMAIN mc :
        LET ts == mc[t]
        IN  /\ (ts.mc_i > 0 /\ ts.pc \in {"mutate", "done"}) =>
                   IF ts.e1 < ts.old.e0
                   THEN /\ ts.c0 = ts.c1 /\ ts.e0 = ts.e1
                        /\ ts.r = compose_result(ts.e1, ts.c1)
                   ELSE /\ ts.c0 = ts.old.c0 /\ ts.e0 = ts.old.e0
                        /\ ts.r = ts.old.r
            /\ ts.pc # "init" => ts.e0 <= ts.old.e0
            /\ ts.pc = "done" => (ts.r.e = ts.best /\ ts.e0 = ts.best)

\* C10 witness: an iteration after the first has ended with a better c1, which
\* was accepted.
C10_Witness ==
    \E t \in DOMAIN mc :
        /\ mc[t].mc_i > 1
        /\ mc[t].pc = "mutate"
        /\ mc[t].e1 < mc[t].old.e0
        /\ mc[t].c0 = mc[t].c1

\* The power of ten: 10^n.
RECURSIVE pow10(_)
pow10(n) == IF n = 0 THEN 1 ELSE 10 * pow10(n - 1)

\* C11: a line search tries at most num_alphas step lengths, alpha = 1, 0.1,
\* 0.01, 0.001, 0.0001 in this order; a trial accepts alpha exactly when
\* evaluate succeeds under the bound e1 + 0.0001 * alpha * pg1 and
\* pg2 >= 0.9 * pg1, and the search stops at the first such trial; h changes
\* only in the update after an accepted alpha (and when an iteration resets it
\* to the identity); after num_alphas failed trials the loop is left with h as
\* it was.
C11_LineSearch ==
    [][\A t \in DOMAIN mc :
        LET a == mc[t]
            b == mc'[t]
            armijo == b.e2 < armijo_bound(a.e1, a.alpha, a.pg1)
            \* no comparison holds of a p that is not finite
            curvature == /\ a.h_finite
                         /\ dot[a.p, gradient[b.c2]] - a.pg1 >= ceil_div(0 - a.pg1, 10)
        IN  /\ a.pc = "trial" =>
                /\ a.num_alpha_trials < num_alphas
                /\ a.alpha * pow10(a.num_alpha_trials) = AlphaUnit
            /\ (a.pc = "trial" /\ b # a) =>
                /\ b.c2 = step(a.c1, a.alpha, a.p)
                /\ b.e2 = inter_energy[b.c2] + intra_energy[b.c2]
                /\ b.h = a.h
                /\ b.c1 = a.c1
                /\ IF armijo /\ curvature
                   THEN b.pc = "update" /\ b.alpha = a.alpha
                   ELSE /\ b.num_alpha_trials = a.num_alpha_trials + 1
                        /\ IF b.num_alpha_trials = num_alphas
                           THEN b.pc = "metropolis"
                           ELSE b.pc = "trial"
            /\ b.h # a.h => a.pc \in {"update", "mutate"}
            /\ b.pc = "metropolis" => b.num_alpha_trials = num_alphas
            /\ b.pc = "update" => b.num_alpha_trials < num_alphas
      ]_vars

\* C11 witness: a line search has accepted alpha = 0.1 at its second trial.
C11_Witness ==
    \E t \in DOMAIN mc :
        /\ mc[t].pc = "update"
        /\ mc[t].num_alpha_trials = 1
        /\ 10 * mc[t].alpha = AlphaUnit

\* C12: every task terminates: it returns after exactly num_mc_iterations
\* iterations, each of which leaves its BFGS loop after finitely many line
\* searches.
C12_Terminates ==
    <>(\A t \in DOMAIN mc : mc[t].pc = "done" /\ mc[t].mc_i = num_mc_iterations)

\* C12 witness: a line search at a point where the gradient is zero, so that
\* its steps have length zero.
C12_Witness ==
    \E t \in DOMAIN mc :
        /\ mc[t].pc = "trial"
        /\ mc[t].mc_i > 0
        /\ \A i \in Variables : mc[t].g1[i] = 0 /\ mc[t].p[i] = 0

\* C13: a conformation that evaluate refused against e_upper_bound, the random
\* start or a mutated c1, never becomes c0 and never becomes the result r:
\* the energy of c0 and of r is better than e_upper_bound.
C13_RefusedNeverKept ==
    \A t \in DOMAIN mc :
        mc[t].pc # "init" =>
            /\ evaluate[mc[t].c0, e_upper_bound, mc[t].g0].ok
            /\ mc[t].r.e < e_upper_bound

\* A torsion value in [-pi, pi).
is_wrapped(x) == 0 - pi <= x /\ x < pi

\* C14: in every conformation a line-search step produces, and so in every
\* c1 and c0 derived from it, each torsion lies in [-pi, pi).
C14_TorsionsWrapped ==
    \A t \in DOMAIN mc :
        mc[t].pc # "init" =>
            \A i \in 1..lig.num_active_torsions :
                /\ is_wrapped(mc[t].c2.torsions[i])
                /\ is_wrapped(mc[t].c1.torsions[i])
                /\ is_wrapped(mc[t].c0.torsions[i])

\* C16: the mutation changes only the position: the mutated c1 has the
\* orientation and the torsions of c0 and a position within 1 of it; the
\* mutation and the BFGS loop that follows leave c0 and e0 as they are, until
\* the Metropolis test.
C16_MutationMovesPosition ==
    [][\A t \in DOMAIN mc :
        LET a == mc[t]
            b == mc'[t]
        IN  /\ (a.pc = "mutate" /\ b # a) =>
                /\ b.c1.orientation = a.c0.orientation
                /\ b.c1.torsions = a.c0.torsions
                /\ \A k \in Axes :
                       b.c1.position[k] - a.c0.position[k] \in (0 - Unit)..(Unit - 1)
            /\ a.pc \in {"mutate", "trial", "update"} =>
                (b.c0 = a.c0 /\ b.e0 = a.e0)
      ]_vars

\* C16 witness: the c1 of a later iteration right after its mutation, moved
\* away from an accepted c0.
C16_Witness ==
    \E t \in DOMAIN mc :
        /\ mc[t].pc = "trial"
        /\ mc[t].num_alpha_trials = 0
        /\ mc[t].h = identity_hessian
        /\ mc[t].mc_i > 0
        /\ mc[t].c0 # mc[t].old.c0
        /\ mc[t].c1.position # mc[t].c0.position
        /\ mc[t].c1.orientation = mc[t].c0.orientation
        /\ mc[t].c1.torsions = mc[t].c0.torsions

\* C17: a trial of the line search leaves c1, e1, f1 and g1 as they are, so
\* after a give-up they are those of the last accepted step or of the mutated
\* conformation; c1 moves only to an accepted c2; the Metropolis step tests
\* and stores this (c1, e1), and e1 is the energy of c1.
C17_GiveUpKeepsAccepted ==
    [][\A t \in DOMAIN mc :
        LET a == mc[t]
            b == mc'[t]
        IN  /\ a.pc = "trial" =>
                (b.c1 = a.c1 /\ b.e1 = a.e1 /\ b.f1 = a.f1 /\ b.g1 = a.g1)
            /\ (a.pc = "update" /\ b # a) =>
                /\ a.e2 < armijo_bound(a.e1, a.alpha, a.pg1)
                /\ a.pg2 - a.pg1 >= ceil_div(0 - a.pg1, 10)
                /\ b.c1 = a.c2 /\ b.e1 = a.e2 /\ b.f1 = a.f2 /\ b.g1 = a.g2
            /\ (a.pc = "metropolis" /\ b # a) =>
                /\ b.c1 = a.c1 /\ b.e1 = a.e1
                /\ b.c0 # a.c0 => (b.c0 = a.c1 /\ b.e0 = a.e1)
            /\ b.pc \in {"trial", "update", "metropolis"} =>
                /\ b.e1 = inter_energy[b.c1] + intra_energy[b.c1]
                /\ b.f1 = inter_energy[b.c1]
      ]_vars

\* C17 witness: a line search has given up after all its trials, following an
\* accepted step, and the Metropolis step is about to accept its (c1, e1).
C17_Witness ==
    \E t \in DOMAIN mc :
        /\ mc[t].pc = "metropolis"
        /\ mc[t].mc_i > 0
        /\ mc[t].num_alpha_trials = num_alphas
        /\ mc[t].h # identity_hessian
        /\ mc[t].e1 < mc[t].e0

\* ------------------------------------------------------------------------
\* Specifications
\* ------------------------------------------------------------------------

\* The receptor constructor before it is called.
IdleRec ==
    /\ rec_pc = "idle"
    /\ num_lines = 0
    /\ residue = 0
    /\ residue_start = 0
    /\ residues_read = <<>>
    /\ line_of = <<>>
    /\ atoms = <<>>
    /\ partitions = [c \in Cells |-> <<>>]
    /\ unknown_seen = FALSE

\* Insertions into a result container.
Init == InitRC /\ IdleRec /\ IdleMC /\ IdleSF

Next == Insert

Spec == Init /\ [][Next]_vars

\* The construction of a receptor.
InitSpecRec == IdleRC /\ InitRec /\ IdleMC /\ IdleSF

SpecRec == InitSpecRec /\ [][NextRec]_vars

\* One Monte Carlo task.
InitSpecMC == IdleRC /\ IdleRec /\ InitMC /\ IdleSF

SpecMC == InitSpecMC /\ [][NextMC]_vars

\* One Monte Carlo task on a worker that keeps running it: a task has no
\* suspension point.
FairSpecMC == InitSpecMC /\ [][NextMC]_vars /\ WF_vars(NextMC)

\* The Monte Carlo tasks of a pool.
InitSpecPool == IdleRC /\ IdleRec /\ InitPool /\ IdleSF

SpecPool == InitSpecPool /\ [][NextMC]_vars

\* Lookups in the scoring tables.
InitSpecSF == IdleRC /\ IdleRec /\ IdleMC /\ InitSF

SpecSF == InitSpecSF /\ [][NextSF]_vars

====
